---- MODULE Spec2Model ----
(***************************************************************************)
(* Model of backend/app/api/course.py: the three route handlers            *)
(* search_courses, get_course_by_id and get_courses_by_major.              *)
(*                                                                         *)
(* One behaviour is one invocation of one handler.  The replies of the     *)
(* collaborators (CourseSearchService, Neo4jService) are inputs of the     *)
(* invocation and are recorded in `request`; `trace` is the sequence of    *)
(* observable events of the invocation (log records, collaborator calls,   *)
(* the final return or raise) in program order.                            *)
(*                                                                         *)
(* A Python str is a sequence of text fragments; concatenation is \o.      *)
(* Strings whose letter case matters are sequences of one-letter           *)
(* fragments.                                                              *)
(***************************************************************************)
EXTENDS Integers, Sequences, FiniteSets, TLC

VARIABLES pc, request, response, trace

vars == <<pc, request, response, trace>>

(* ---------------------------- bounds ---------------------------------- *)

NumCourses == 3
MaxResults == 3

(* ------------------------- Python values ------------------------------ *)

None == [some |-> FALSE]
Some(v) == [some |-> TRUE, v |-> v]

\* `x or []`
OrEmptyList(x) == IF x.some /\ x.v # <<>> THEN x.v ELSE <<>>

\* str(n) for an integer
Str(n) == <<ToString(n)>>

\* str.upper() on one letter
UpperChar(c) ==
  CASE c = "a" -> "A" [] c = "c" -> "C" [] c = "d" -> "D" [] c = "e" -> "E"
    [] c = "f" -> "F" [] c = "g" -> "G" [] c = "i" -> "I" [] c = "m" -> "M"
    [] c = "n" -> "N" [] c = "o" -> "O" [] c = "s" -> "S" [] c = "x" -> "X"
    [] c = "y" -> "Y" [] c = "z" -> "Z"
    [] OTHER -> c

\* str.upper()
Upper(s) == [i \in 1..Len(s) |-> UpperChar(s[i])]

\* sep.join(strs)
RECURSIVE Join(_, _)
Join(strs, sep) ==
  IF strs = <<>> THEN <<>>
  ELSE IF Len(strs) = 1 THEN strs[1]
  ELSE strs[1] \o sep \o Join(Tail(strs), sep)

\* {**base, **extra}
DictMerge(base, extra) == extra @@ base

(* ----------------------------- events --------------------------------- *)

Log(level, msg) == [ev |-> "log", level |-> level, msg |-> msg]
Call(fn, args) == [ev |-> "call", fn |-> fn, args |-> args]

Exc(type, msg) == [type |-> type, msg |-> msg]
HTTPException(status, detail) ==
  [type |-> "HTTPException", status |-> status, detail |-> detail, msg |-> detail]

\* outcome of a block of code: it returns a value or raises
Return(value, tr) == [outcome |-> "return", value |-> value, trace |-> tr]
Raise(exc, tr) == [outcome |-> "raise", exc |-> exc, trace |-> tr]

NoEnvelope == [envelope |-> FALSE]

(* ------------------- search_courses: classification ------------------- *)

\* variant: the names joined without the space after the comma
PrerequisiteMessage_NoSpace(missing) ==
  <<"Complete one of: ">> \o Join([i \in 1..Len(missing) |-> missing[i].name], <<",">>)

\* f"Complete one of: {', '.join([p['name'] for p in missing])}"
PrerequisiteMessage(missing) ==
  <<"Complete one of: ">> \o Join([i \in 1..Len(missing) |-> missing[i].name], <<", ">>)

EligibleEntry(course, status) ==
  DictMerge(course, [prerequisite_status |-> status, eligible |-> TRUE])

IneligibleEntry(course, status) ==
  DictMerge(course, [prerequisite_status |-> status,
                     eligible |-> FALSE,
                     missing_prerequisites |-> status.missing_prerequisites,
                     prerequisite_message |-> PrerequisiteMessage(status.missing_prerequisites)])

KeyError(key) == Exc("KeyError", <<"'", key, "'">>)

\* variant: a course whose check fails is skipped and the loop goes on
ClassifyCourse_SkipFailed(course, reply, completed, acc) ==
  LET tr == Append(acc.trace,
                   Call("check_prerequisites_completion",
                        [course_id |-> Str(course.id), completed_courses |-> completed]))
      st == reply.value
  IN  IF reply.kind = "raise" THEN [acc EXCEPT !.trace = tr]
      ELSE IF "prerequisites_met" \notin DOMAIN st THEN [acc EXCEPT !.trace = tr]
      ELSE IF st.prerequisites_met
        THEN [acc EXCEPT !.trace = tr, !.eligible = Append(@, EligibleEntry(course, st))]
      ELSE IF "missing_prerequisites" \notin DOMAIN st THEN [acc EXCEPT !.trace = tr]
      ELSE IF \E i \in 1..Len(st.missing_prerequisites) :
                 "name" \notin DOMAIN st.missing_prerequisites[i]
        THEN [acc EXCEPT !.trace = tr]
      ELSE [acc EXCEPT !.trace = tr, !.ineligible = Append(@, IneligibleEntry(course, st))]

\* variant: classified courses are inserted at the front of their list
ClassifyCourse_Prepend(course, reply, completed, acc) ==
  LET tr == Append(acc.trace,
                   Call("check_prerequisites_completion",
                        [course_id |-> Str(course.id), completed_courses |-> completed]))
      st == reply.value
  IN  IF reply.kind = "raise"
        THEN [acc EXCEPT !.trace = tr, !.raised = Some(reply.exc)]
      ELSE IF "prerequisites_met" \notin DOMAIN st
        THEN [acc EXCEPT !.trace = tr, !.raised = Some(KeyError("prerequisites_met"))]
      ELSE IF st.prerequisites_met
        THEN [acc EXCEPT !.trace = tr,
                         !.eligible = <<EligibleEntry(course, st)>> \o @]
      ELSE IF "missing_prerequisites" \notin DOMAIN st
        THEN [acc EXCEPT !.trace = tr, !.raised = Some(KeyError("missing_prerequisites"))]
      ELSE IF \E i \in 1..Len(st.missing_prerequisites) :
                 "name" \notin DOMAIN st.missing_prerequisites[i]
        THEN [acc EXCEPT !.trace = tr, !.raised = Some(KeyError("name"))]
      ELSE [acc EXCEPT !.trace = tr,
                       !.ineligible = <<IneligibleEntry(course, st)>> \o @]

\* One iteration of the loop over search_results["courses"].  acc carries the
\* two lists, the events so far and the exception that left the loop, if any.
ClassifyCourse(course, reply, completed, acc) ==
  LET tr == Append(acc.trace,
                   Call("check_prerequisites_completion",
                        [course_id |-> Str(course.id), completed_courses |-> completed]))
      st == reply.value
  IN  IF reply.kind = "raise"
        THEN [acc EXCEPT !.trace = tr, !.raised = Some(reply.exc)]
      ELSE IF "prerequisites_met" \notin DOMAIN st
        THEN [acc EXCEPT !.trace = tr, !.raised = Some(KeyError("prerequisites_met"))]
      ELSE IF st.prerequisites_met
        THEN [acc EXCEPT !.trace = tr,
                         !.eligible = Append(@, EligibleEntry(course, st))]
      ELSE IF "missing_prerequisites" \notin DOMAIN st
        THEN [acc EXCEPT !.trace = tr, !.raised = Some(KeyError("missing_prerequisites"))]
      ELSE IF \E i \in 1..Len(st.missing_prerequisites) :
                 "name" \notin DOMAIN st.missing_prerequisites[i]
        THEN [acc EXCEPT !.trace = tr, !.raised = Some(KeyError("name"))]
      ELSE [acc EXCEPT !.trace = tr,
                       !.ineligible = Append(@, IneligibleEntry(course, st))]

\* for course in search_results["courses"]: ...
RECURSIVE PrereqLoop(_, _, _, _, _)
PrereqLoop(courses, replies, completed, i, acc) ==
  IF i > Len(courses) \/ acc.raised.some THEN acc
  ELSE PrereqLoop(courses, replies, completed, i + 1,
                  ClassifyCourse(courses[i], replies[i], completed, acc))

\* variant: eligible_count taken from the whole result list
CheckedResults_CountAll(sr, eligible, ineligible, completed) ==
  DictMerge(sr, [eligible_courses |-> eligible,
                 ineligible_courses |-> ineligible,
                 prerequisites_checked |-> TRUE,
                 user_completed_courses |-> completed,
                 eligible_count |-> Len(sr.courses),
                 ineligible_count |-> Len(ineligible)])

\* the branch that stores the classification into search_results
CheckedResults(sr, eligible, ineligible, completed) ==
  DictMerge(sr, [eligible_courses |-> eligible,
                 ineligible_courses |-> ineligible,
                 prerequisites_checked |-> TRUE,
                 user_completed_courses |-> completed,
                 eligible_count |-> Len(eligible),
                 ineligible_count |-> Len(ineligible)])

\* variant: the unchecked branch claims that checking took place
UncheckedResults_Flagged(sr) ==
  DictMerge(sr, [eligible_courses |-> sr.courses,
                 ineligible_courses |-> <<>>,
                 prerequisites_checked |-> TRUE,
                 eligible_count |-> Len(sr.courses),
                 ineligible_count |-> 0])

\* the else branch: no prerequisite checking or Neo4j not configured
UncheckedResults(sr) ==
  DictMerge(sr, [eligible_courses |-> sr.courses,
                 ineligible_courses |-> <<>>,
                 prerequisites_checked |-> FALSE,
                 eligible_count |-> Len(sr.courses),
                 ineligible_count |-> 0])

(* ----------------------- search_courses: body ------------------------- *)

SearchCompletedLogs(check, res) ==
  <<Log("info", <<"Course search completed successfully. Found ",
                  ToString(res.total_count), " matches">>)>>
  \o (IF check
        THEN <<Log("info", <<"Prerequisites checked: ", ToString(res.eligible_count),
                             " eligible, ", ToString(res.ineligible_count), " ineligible">>)>>
        ELSE <<>>)

\* the try block of search_courses
SearchCoursesTry(req) ==
  LET t0 == <<Log("info", <<"Course search request from user ">> \o Str(req.user.id)
                           \o <<" with query: '">> \o req.q \o <<"'">>)>>
      completed == OrEmptyList(req.user.completed_courses)
      t1 == Append(t0, Call("search_courses",
                            [query |-> req.q, limit |-> req.limit,
                             offset |-> req.offset, major_filter |-> req.major]))
      sr == req.search_reply.value
      \* `check_prerequisites and neo4j_service.is_configured()` short-circuits
      t2 == IF req.check_prerequisites THEN Append(t1, Call("is_configured", <<>>)) ELSE t1
  IN  IF req.search_reply.kind = "raise" THEN Raise(req.search_reply.exc, t1)
      ELSE IF req.check_prerequisites /\ req.configured
        THEN LET acc == PrereqLoop(sr.courses, req.prereq_replies, completed, 1,
                                   [eligible |-> <<>>, ineligible |-> <<>>,
                                    raised |-> None, trace |-> t2])
             IN  IF acc.raised.some THEN Raise(acc.raised.v, acc.trace)
                 ELSE LET res == CheckedResults(sr, acc.eligible, acc.ineligible, completed)
                      IN  Return(res, acc.trace \o SearchCompletedLogs(req.check_prerequisites, res))
      ELSE LET res == UncheckedResults(sr)
           IN  Return(res, t2 \o SearchCompletedLogs(req.check_prerequisites, res))

\* the except clauses of search_courses
SearchCoursesExcept(r) ==
  IF r.outcome = "return" THEN r
  ELSE IF r.exc.type = "ValueError"
    THEN Raise(HTTPException(400, <<"Invalid search parameters: ">> \o r.exc.msg),
               Append(r.trace, Log("warning", <<"Invalid search parameters: ">> \o r.exc.msg)))
  ELSE Raise(HTTPException(500, <<"Search failed: ">> \o r.exc.msg),
             Append(r.trace, Log("error", <<"Error in course search: ">> \o r.exc.msg)))

search_courses(req) == SearchCoursesExcept(SearchCoursesTry(req))

(* -------------------- course formatting (ORM row) --------------------- *)

\* datetime.isoformat()
IsoFormat(dt) == <<dt.year, "-", dt.month, "-", dt.day, "T", dt.hour, ":", dt.minute, ":", dt.second>>

\* `course.created_at.isoformat() if course.created_at else None`
FormatCreatedAt(created_at) ==
  IF ~created_at.some THEN Return(None, <<>>)
  ELSE IF created_at.v.type = "datetime" THEN Return(Some(IsoFormat(created_at.v)), <<>>)
  ELSE Raise(Exc("AttributeError",
                 <<"'", created_at.v.type, "' object has no attribute 'isoformat'">>), <<>>)

\* the dict literal built from a Course row in get_course_by_id and
\* get_courses_by_major
FormatCourse(course) ==
  LET ca == FormatCreatedAt(course.created_at)
  IN  IF ca.outcome = "raise" THEN ca
      ELSE Return([id |-> Str(course.id),
                   course_id |-> course.course_id,
                   course_name |-> course.course_name,
                   course_description |-> course.course_description,
                   major |-> course.major,
                   domains |-> OrEmptyList(course.domains),
                   skills_associated |-> OrEmptyList(course.skills_associated),
                   prerequisites |-> OrEmptyList(course.prerequisites),
                   created_at |-> ca.value], <<>>)

(* -------------------------- get_course_by_id -------------------------- *)

\* the try block of get_course_by_id
GetCourseByIdTry(req) ==
  LET t0 == <<Log("info", <<"Course detail request from user ">> \o Str(req.user.id)
                           \o <<" for course: ">> \o req.course_id)>>
      t1 == Append(t0, Call("get_course_by_id", [course_id |-> req.course_id]))
      reply == req.lookup_reply
  IN  IF reply.kind = "raise" THEN Raise(reply.exc, t1)
      ELSE IF ~reply.value.some
        THEN Raise(HTTPException(404, <<"Course with ID '">> \o req.course_id \o <<"' not found">>),
                   Append(t1, Log("warning", <<"Course not found: ">> \o req.course_id)))
      ELSE LET f == FormatCourse(reply.value.v)
           IN  IF f.outcome = "raise" THEN Raise(f.exc, t1)
               ELSE Return(f.value,
                           Append(t1, Log("info", <<"Course detail retrieved successfully for course: ">>
                                                  \o req.course_id)))

\* variant: without the `except HTTPException: raise` clause
GetCourseByIdExcept_CatchAll(r, req) ==
  IF r.outcome = "return" THEN r
  ELSE Raise(HTTPException(500, <<"Failed to retrieve course: ">> \o r.exc.msg),
             Append(r.trace, Log("error", <<"Error retrieving course ">> \o req.course_id
                                          \o <<": ">> \o r.exc.msg)))

\* the except clauses of get_course_by_id
GetCourseByIdExcept(r, req) ==
  IF r.outcome = "return" THEN r
  ELSE IF r.exc.type = "HTTPException" THEN r
  ELSE Raise(HTTPException(500, <<"Failed to retrieve course: ">> \o r.exc.msg),
             Append(r.trace, Log("error", <<"Error retrieving course ">> \o req.course_id
                                          \o <<": ">> \o r.exc.msg)))

get_course_by_id(req) == GetCourseByIdExcept(GetCourseByIdTry(req), req)

(* ------------------------ get_courses_by_major ------------------------ *)

valid_majors == << <<"C","S","Y","E">>, <<"I","N","F","O">>, <<"D","A","M","G">> >>

\* variant: the major compared without upper-casing
IsValidMajor_CaseSensitive(major) == \E i \in 1..Len(valid_majors) : valid_majors[i] = major

\* `major.upper() not in valid_majors`, negated
IsValidMajor(major) == \E i \in 1..Len(valid_majors) : valid_majors[i] = Upper(major)

\* for course in courses: formatted_courses.append({...})
RECURSIVE FormatLoop(_, _, _)
FormatLoop(courses, i, formatted) ==
  IF i > Len(courses) THEN Return(formatted, <<>>)
  ELSE LET f == FormatCourse(courses[i])
       IN  IF f.outcome = "raise" THEN f
           ELSE FormatLoop(courses, i + 1, Append(formatted, f.value))

\* the try block of get_courses_by_major
GetCoursesByMajorTry(req) ==
  LET t0 == <<Log("info", <<"Major courses request from user ">> \o Str(req.user.id)
                           \o <<" for major: ">> \o req.major)>>
      t1 == Append(t0, Call("get_courses_by_major",
                            [major |-> Upper(req.major), limit |-> req.limit]))
      reply == req.major_reply
  IN  IF ~IsValidMajor(req.major)
        THEN Raise(HTTPException(400, <<"Invalid major. Must be one of: ">>
                                      \o Join(valid_majors, <<", ">>)), <<>>)
      ELSE IF reply.kind = "raise" THEN Raise(reply.exc, t1)
      ELSE LET fl == FormatLoop(reply.value, 1, <<>>)
           IN  IF fl.outcome = "raise" THEN Raise(fl.exc, t1)
               ELSE Return([major |-> Upper(req.major),
                            courses |-> fl.value,
                            total_count |-> Len(fl.value),
                            limit |-> req.limit],
                           Append(t1, Log("info", <<"Retrieved ", ToString(Len(fl.value)),
                                                    " courses for major: ">> \o req.major)))

\* the except clauses of get_courses_by_major
GetCoursesByMajorExcept(r, req) ==
  IF r.outcome = "return" THEN r
  ELSE IF r.exc.type = "HTTPException" THEN r
  ELSE Raise(HTTPException(500, <<"Failed to retrieve courses: ">> \o r.exc.msg),
             Append(r.trace, Log("error", <<"Error retrieving courses for major ">> \o req.major
                                          \o <<": ">> \o r.exc.msg)))

get_courses_by_major(req) == GetCoursesByMajorExcept(GetCoursesByMajorTry(req), req)

(* ------------------- what the client of a handler sees ---------------- *)

\* FastAPI turns a returned dict into a 200 and an HTTPException into its status
ResponseOf(r) ==
  IF r.outcome = "return"
    THEN [status |-> 200, body |-> r.value, detail |-> <<>>]
    ELSE [status |-> r.exc.status, body |-> NoEnvelope, detail |-> r.exc.detail]

TraceOf(r) ==
  Append(r.trace, IF r.outcome = "return" THEN [ev |-> "return"]
                  ELSE [ev |-> "raise", status |-> r.exc.status])

(* ------------------------------ inputs -------------------------------- *)

CourseIds == 1..NumCourses

\* current_user, with completed_courses unset or a list of course ids
Users == { [id |-> 7, completed_courses |-> None],
           [id |-> 7, completed_courses |-> Some(<< <<"CSYE6200">> >>)] }

Queries == { <<"CSYE6200">> }

\* values of the `major` path and query parameter
Majors == { <<"c","s","y","e">>, <<"C","S","Y","E">>, <<"C","s","y","e">>,
            <<"i","n","f","o">>, <<"I","N","F","O">>,
            <<"d","a","m","g">>, <<"D","A","M","G">>,
            <<"x","y","z">>, <<"X","Y","Z">>, <<"i","N","f","o">> }

SearchMajors == { None, Some(<<"c","s","y","e">>), Some(<<"C","S","Y","E">>) }

\* a course as CourseSearchService.search_courses returns it (a dict)
CourseDict(i) ==
  [id |-> i, course_id |-> <<"CSYE", ToString(6200 + i)>>, course_name |-> <<"Course ", ToString(i)>>]

\* lists of courses without repetition, of at most MaxResults courses
CourseIdLists ==
  UNION { { s \in [1..n -> CourseIds] : \A i, j \in 1..n : i # j => s[i] # s[j] }
          : n \in 0..MaxResults }

ValueErrorReply == [kind |-> "raise", exc |-> Exc("ValueError", <<"Query too short">>)]
ExceptionReply == [kind |-> "raise", exc |-> Exc("Exception", <<"connection lost">>)]
ValueReply(v) == [kind |-> "value", value |-> v]

SearchReplies ==
  { ValueErrorReply, ExceptionReply }
  \cup { ValueReply([courses |-> [i \in 1..Len(ids) |-> CourseDict(ids[i])],
                     total_count |-> Len(ids),
                     has_more |-> FALSE])
         : ids \in CourseIdLists }

P1 == [name |-> <<"CSYE6200">>]
P2 == [name |-> <<"INFO5100">>]

\* replies of Neo4jService.check_prerequisites_completion
PrereqReplies ==
  { ValueReply([prerequisites_met |-> TRUE, missing_prerequisites |-> <<>>]),
    ValueReply([prerequisites_met |-> FALSE, missing_prerequisites |-> <<P1>>]),
    ValueReply([prerequisites_met |-> FALSE, missing_prerequisites |-> <<P2, P1>>]),
    ValueReply([prerequisites_met |-> FALSE]),
    ValueReply([prerequisites_met |-> FALSE, missing_prerequisites |-> <<[course_id |-> <<"CSYE6200">>]>>]),
    ValueErrorReply,
    ExceptionReply }

DateTime == [type |-> "datetime", year |-> "2024", month |-> "01", day |-> "15",
             hour |-> "09", minute |-> "30", second |-> "00"]

\* a Course row as the ORM returns it
CourseRow(i, lists, created_at) ==
  [id |-> i, course_id |-> <<"CSYE", ToString(6200 + i)>>,
   course_name |-> <<"Course ", ToString(i)>>,
   course_description |-> <<"Description ", ToString(i)>>,
   major |-> <<"C","S","Y","E">>,
   domains |-> lists, skills_associated |-> lists,
   prerequisites |-> IF lists.some THEN Some(<< <<"CSYE6200">> >>) ELSE None,
   created_at |-> created_at]

CreatedAts == { None, Some(DateTime), Some([type |-> "str"]) }

CourseRows ==
  { CourseRow(i, l, c) : i \in CourseIds, l \in { None, Some(<< <<"ai">> >>) }, c \in CreatedAts }

LookupReplies == { ExceptionReply, ValueReply(None) } \cup { ValueReply(Some(c)) : c \in CourseRows }

\* lists of rows without repetition of ids
CourseRowLists ==
  UNION { { s \in [1..n -> { CourseRow(i, None, c) : i \in CourseIds, c \in CreatedAts }] :
              \A i, j \in 1..n : i # j => s[i].id # s[j].id }
          : n \in 0..MaxResults }

MajorReplies == { ExceptionReply } \cup { ValueReply(l) : l \in CourseRowLists }

(* --------------------------- specification ---------------------------- *)

Init ==
  /\ pc = "idle"
  /\ request = [endpoint |-> "none"]
  /\ response = [status |-> 0, body |-> NoEnvelope, detail |-> <<>>]
  /\ trace = <<>>

Handle(req, r) ==
  /\ pc' = "done"
  /\ request' = req
  /\ response' = ResponseOf(r)
  /\ trace' = TraceOf(r)

\* GET /search
SearchCourses ==
  /\ pc = "idle"
  /\ \E user \in Users, q \in Queries, major \in SearchMajors,
     check \in BOOLEAN, configured \in BOOLEAN, sreply \in SearchReplies :
    \E preplies \in (IF sreply.kind = "value" /\ check /\ configured
                       THEN [1..Len(sreply.value.courses) -> PrereqReplies]
                       ELSE { <<>> }) :
      LET req == [endpoint |-> "search", user |-> user, q |-> q, limit |-> 5, offset |-> 0,
                  major |-> major, check_prerequisites |-> check, configured |-> configured,
                  search_reply |-> sreply, prereq_replies |-> preplies]
      IN  Handle(req, search_courses(req))

\* GET /search/{course_id}
GetCourseById ==
  /\ pc = "idle"
  /\ \E user \in Users, id \in CourseIds, reply \in LookupReplies :
    LET req == [endpoint |-> "by_id", user |-> user,
                course_id |-> <<"CSYE", ToString(6200 + id)>>, lookup_reply |-> reply]
    IN  Handle(req, get_course_by_id(req))

\* GET /major/{major}
GetCoursesByMajor ==
  /\ pc = "idle"
  /\ \E user \in Users, major \in Majors, reply \in MajorReplies :
    LET req == [endpoint |-> "by_major", user |-> user, major |-> major, limit |-> 50,
                major_reply |-> reply]
    IN  Handle(req, get_courses_by_major(req))

Next == SearchCourses \/ GetCourseById \/ GetCoursesByMajor

Spec == Init /\ [][Next]_vars

(* ------------------------- properties: helpers ------------------------ *)

IdsOf(entries) == { entries[i].id : i \in 1..Len(entries) }
IdSeq(entries) == [i \in 1..Len(entries) |-> entries[i].id]

\* the events of a trace that are collaborator calls, in order
RECURSIVE CallsOf(_)
CallsOf(tr) ==
  IF tr = <<>> THEN <<>>
  ELSE IF Head(tr).ev = "call" THEN <<Head(tr)>> \o CallsOf(Tail(tr))
  ELSE CallsOf(Tail(tr))

SearchDone == pc = "done" /\ request.endpoint = "search"
ByIdDone == pc = "done" /\ request.endpoint = "by_id"
ByMajorDone == pc = "done" /\ request.endpoint = "by_major"

SearchReplied == SearchDone /\ request.search_reply.kind = "value"
ReturnedCourses == request.search_reply.value.courses

\* the search succeeded and the classification loop was entered
CheckingPerformed ==
  SearchReplied /\ request.check_prerequisites /\ request.configured

\* the reply of the graph collaborator for the i-th course makes the handler raise
CheckFails(i) ==
  LET reply == request.prereq_replies[i]
      st == reply.value
  IN  \/ reply.kind = "raise"
      \/ "prerequisites_met" \notin DOMAIN st
      \/ /\ ~st.prerequisites_met
         /\ \/ "missing_prerequisites" \notin DOMAIN st
            \/ \E k \in 1..Len(st.missing_prerequisites) :
                 "name" \notin DOMAIN st.missing_prerequisites[k]

\* the ids of the courses cs[i..] whose reply has prerequisites_met = want, in order
RECURSIVE IdsWithMet(_, _, _, _)
IdsWithMet(cs, replies, i, want) ==
  IF i > Len(cs) THEN <<>>
  ELSE (IF replies[i].value.prerequisites_met = want THEN <<cs[i].id>> ELSE <<>>)
       \o IdsWithMet(cs, replies, i + 1, want)

(* ------------------------------- C1 ----------------------------------- *)

\* C1: when search_courses answers after classifying the courses,
\* eligible_count and ineligible_count are the lengths of the two sequences,
\* they add up to the number of courses the search collaborator returned, and
\* every returned course id is in exactly one of the two sequences.
C1_CountsAndPartition ==
  (CheckingPerformed /\ response.status = 200) =>
    LET b == response.body
    IN  /\ b.eligible_count = Len(b.eligible_courses)
        /\ b.ineligible_count = Len(b.ineligible_courses)
        /\ b.eligible_count + b.ineligible_count = Len(ReturnedCourses)
        /\ \A i \in 1..Len(ReturnedCourses) :
             (ReturnedCourses[i].id \in IdsOf(b.eligible_courses))
               # (ReturnedCourses[i].id \in IdsOf(b.ineligible_courses))

C1_Witness ==
  /\ CheckingPerformed /\ response.status = 200
  /\ Len(ReturnedCourses) = 3
  /\ response.body.eligible_count = 2
  /\ response.body.ineligible_count = 1

(* ------------------------------- C2 ----------------------------------- *)

\* C2: when check_prerequisites is false or the graph collaborator is not
\* configured, the response has the raw result list as eligible_courses, no
\* ineligible courses, prerequisites_checked false, eligible_count the number
\* of returned courses and ineligible_count 0; it is the response of the same
\* request with the flag false.
C2_UncheckedResponse ==
  (SearchReplied /\ (~request.check_prerequisites \/ ~request.configured)) =>
    /\ response.status = 200
    /\ response.body.eligible_courses = ReturnedCourses
    /\ response.body.ineligible_courses = <<>>
    /\ response.body.prerequisites_checked = FALSE
    /\ response.body.eligible_count = Len(ReturnedCourses)
    /\ response.body.ineligible_count = 0
    /\ response = ResponseOf(search_courses([request EXCEPT !.check_prerequisites = FALSE]))

C2_Witness ==
  /\ SearchReplied /\ request.check_prerequisites /\ ~request.configured
  /\ Len(ReturnedCourses) = 2
  /\ response.status = 200
  /\ response.body.eligible_count = 2

(* ------------------------------- C3 ----------------------------------- *)

\* C3: in search_courses a ValueError of the search collaborator ends as a
\* 400 carrying the validation message, and every other failure while
\* handling the request ends as a 500 carrying the generic failure message.
C3_ErrorMapping ==
  SearchDone =>
    LET searchValueError == /\ request.search_reply.kind = "raise"
                            /\ request.search_reply.exc.type = "ValueError"
    IN  /\ searchValueError =>
             /\ response.status = 400
             /\ response.detail = <<"Invalid search parameters: ">> \o request.search_reply.exc.msg
        /\ (response.status # 200 /\ ~searchValueError) =>
             /\ response.status = 500
             /\ Head(response.detail) = "Search failed: "

(* ------------------------------- C4 ----------------------------------- *)

\* C4: in get_course_by_id a lookup that finds no course ends as a 404, a
\* lookup that finds a course whose formatting succeeds ends as a 200 with
\* the formatted course, and a 500 happens only when the collaborator or the
\* formatting raises.
C4_NotFoundIs404 ==
  ByIdDone =>
    LET reply == request.lookup_reply
        found == reply.kind = "value" /\ reply.value.some
        formatFails == found /\ reply.value.v.created_at.some
                             /\ reply.value.v.created_at.v.type # "datetime"
    IN  /\ (reply.kind = "value" /\ ~reply.value.some) => response.status = 404
        /\ (found /\ ~formatFails) =>
             /\ response.status = 200
             /\ response.body.id = <<ToString(reply.value.v.id)>>
             /\ response.body.course_id = reply.value.v.course_id
             /\ response.body.course_name = reply.value.v.course_name
             /\ response.body.major = reply.value.v.major
             /\ response.body.domains = (IF reply.value.v.domains.some
                                           THEN reply.value.v.domains.v ELSE <<>>)
             /\ response.body.created_at.some = reply.value.v.created_at.some
        /\ response.status = 500 => (reply.kind = "raise" \/ formatFails)
        /\ response.status \in {200, 404, 500}

C4_Witness ==
  /\ ByIdDone
  /\ request.lookup_reply.kind = "value" /\ ~request.lookup_reply.value.some
  /\ response.status = 404
  /\ response.body = NoEnvelope

(* ------------------------------- C5 ----------------------------------- *)

AllowedMajors == { <<"C","S","Y","E">>, <<"I","N","F","O">>, <<"D","A","M","G">> }

\* C5: get_courses_by_major answers a major whose upper-case form is not
\* CSYE, INFO or DAMG with a 400 whose message lists the three, without
\* calling the search collaborator; for the others it calls the collaborator
\* with the upper-cased major and the response carries the upper-cased major.
C5_MajorValidation ==
  ByMajorDone =>
    IF Upper(request.major) \notin AllowedMajors
      THEN /\ response.status = 400
           /\ response.detail = <<"Invalid major. Must be one of: ",
                                  "C","S","Y","E", ", ", "I","N","F","O", ", ", "D","A","M","G">>
           /\ CallsOf(trace) = <<>>
      ELSE /\ Len(CallsOf(trace)) = 1
           /\ CallsOf(trace)[1].fn = "get_courses_by_major"
           /\ CallsOf(trace)[1].args.major = Upper(request.major)
           /\ CallsOf(trace)[1].args.major \in AllowedMajors
           /\ response.status # 400
           /\ response.status = 200 => response.body.major = Upper(request.major)

C5_Witness ==
  /\ ByMajorDone
  /\ request.major = <<"C","s","y","e">>
  /\ response.status = 200
  /\ response.body.major = <<"C","S","Y","E">>
  /\ Len(response.body.courses) = 2

(* ------------------------------- C6 ----------------------------------- *)

\* C6: the major parameter is case-insensitive on GET /major/{major} and on
\* GET /search: a request that differs only in the letter case of major makes
\* the handler pass the same values to the search collaborator and gives the
\* same response.
C6_MajorCaseInsensitive ==
  /\ ByMajorDone =>
       \A m \in Majors :
         Upper(m) = Upper(request.major) =>
           LET r == get_courses_by_major([request EXCEPT !.major = m])
           IN  /\ ResponseOf(r) = response
               /\ CallsOf(TraceOf(r)) = CallsOf(trace)
  /\ (SearchDone /\ request.major.some) =>
       \A m \in SearchMajors :
         (m.some /\ Upper(m.v) = Upper(request.major.v)) =>
           LET r == search_courses([request EXCEPT !.major = m])
           IN  /\ ResponseOf(r) = response
               /\ CallsOf(TraceOf(r)) = CallsOf(trace)

(* ------------------------------- C7 ----------------------------------- *)

\* C7: no partial success: an invocation ends with a complete envelope and
\* status 200, or with an error and no envelope; when the prerequisite check
\* of one returned course fails in search_courses, the request ends with an
\* error and none of the courses classified before it is returned.
C7_NoPartialSuccess ==
  pc = "done" =>
    /\ response.status = 200 \/ response.body = NoEnvelope
    /\ (SearchDone /\ response.status = 200) =>
         /\ request.search_reply.kind = "value"
         /\ {"courses", "total_count", "has_more", "eligible_courses", "ineligible_courses",
             "prerequisites_checked", "eligible_count", "ineligible_count"}
              \subseteq DOMAIN response.body
         /\ IdsOf(response.body.eligible_courses) \cup IdsOf(response.body.ineligible_courses)
              = IdsOf(ReturnedCourses)
    /\ (CheckingPerformed /\ \E i \in 1..Len(ReturnedCourses) : CheckFails(i)) =>
         /\ response.status \in {400, 500}
         /\ response.body = NoEnvelope
    /\ (ByMajorDone /\ response.status = 200) =>
         /\ request.major_reply.kind = "value"
         /\ IdSeq(response.body.courses)
              = [i \in 1..Len(request.major_reply.value) |-> <<ToString(request.major_reply.value[i].id)>>]
         /\ response.body.total_count = Len(request.major_reply.value)

C7_Witness ==
  /\ CheckingPerformed
  /\ Len(ReturnedCourses) = 3
  /\ ~CheckFails(1) /\ ~CheckFails(2) /\ CheckFails(3)
  /\ response.status = 500
  /\ response.body = NoEnvelope

(* ------------------------------- C8 ----------------------------------- *)

\* C8: after classification a returned course is in eligible_courses with
\* eligible = true iff the graph collaborator reported prerequisites_met for
\* it, and in ineligible_courses with eligible = false otherwise; its entry
\* has every field of the course record plus the prerequisite status; both
\* sequences keep the order of the search result.
C8_Classification ==
  (CheckingPerformed /\ response.status = 200) =>
    LET b == response.body
        cs == ReturnedCourses
        replies == request.prereq_replies
        EntryFor(list, id) == list[CHOOSE k \in 1..Len(list) : list[k].id = id]
    IN  /\ IdSeq(b.eligible_courses) = IdsWithMet(cs, replies, 1, TRUE)
        /\ IdSeq(b.ineligible_courses) = IdsWithMet(cs, replies, 1, FALSE)
        /\ \A i \in 1..Len(cs) :
             LET met == replies[i].value.prerequisites_met
                 e == EntryFor(IF met THEN b.eligible_courses ELSE b.ineligible_courses, cs[i].id)
             IN  /\ e.eligible = met
                 /\ e.prerequisite_status = replies[i].value
                 /\ \A f \in DOMAIN cs[i] : e[f] = cs[i][f]

C8_Witness ==
  /\ CheckingPerformed /\ response.status = 200
  /\ IdSeq(ReturnedCourses) = <<3, 1, 2>>
  /\ IdSeq(response.body.eligible_courses) = <<3, 2>>
  /\ IdSeq(response.body.ineligible_courses) = <<1>>

(* ------------------------------- C9 ----------------------------------- *)

\* C9: every entry of ineligible_courses has the missing-prerequisite list
\* the graph collaborator reported and the message "Complete one of: "
\* followed by the names of that list, in order, separated by ", ".
C9_PrerequisiteMessage ==
  (CheckingPerformed /\ response.status = 200) =>
    \A i \in 1..Len(ReturnedCourses) :
      ~request.prereq_replies[i].value.prerequisites_met =>
        \E k \in 1..Len(response.body.ineligible_courses) :
          LET e == response.body.ineligible_courses[k]
              missing == request.prereq_replies[i].value.missing_prerequisites
              n == Len(missing)
          IN  /\ e.id = ReturnedCourses[i].id
              /\ e.missing_prerequisites = missing
              /\ Head(e.prerequisite_message) = "Complete one of: "
              /\ Len(e.prerequisite_message) = (IF n = 0 THEN 1 ELSE 2 * n)
              /\ \A j \in 1..n : e.prerequisite_message[2 * j] = missing[j].name[1]
              /\ \A j \in 1..(n - 1) : e.prerequisite_message[2 * j + 1] = ", "
              /\ (missing = <<P1>>) => e.prerequisite_message = <<"Complete one of: ", "CSYE6200">>

C9_Witness ==
  /\ CheckingPerformed /\ response.status = 200
  /\ Len(response.body.ineligible_courses) = 2
  /\ response.body.ineligible_courses[1].prerequisite_message
       = <<"Complete one of: ", "INFO5100", ", ", "CSYE6200">>
  /\ response.body.ineligible_courses[2].prerequisite_message
       = <<"Complete one of: ", "CSYE6200">>

(* ------------------------------- C10 ---------------------------------- *)

\* C10: on every path of the three handlers that ends with a 400, 404 or 500
\* the handler emits a log record before the error is raised, and no
\* collaborator call is made twice.
C10_ErrorsLoggedBeforeRaise ==
  (pc = "done" /\ response.status \in {400, 404, 500}) =>
    /\ trace[Len(trace)].ev = "raise"
    /\ \E i \in 1..(Len(trace) - 1) : trace[i].ev = "log"
    /\ \A i, j \in 1..Len(CallsOf(trace)) :
         i # j => CallsOf(trace)[i] # CallsOf(trace)[j]

====
